---- MODULE Spec2Model ----
(***************************************************************************)
(* Model of the write path of s7client: the fragment loop of write_area   *)
(* (src/src/s7_protocol/write_area.rs) and the error taxonomy             *)
(* (src/src/errors.rs).                                                    *)
(*                                                                         *)
(* One call of write_area is a small state machine.  The only suspension  *)
(* point of the async function is the transport exchange, so the call is  *)
(* cut there: CapacityCheck (lines 53-62), BuildRequest (the loop guard   *)
(* and lines 64-95), ExchangeResponds / ExchangeFails (lines 97-120) and  *)
(* ReturnOk (line 123).                                                    *)
(***************************************************************************)
EXTENDS Integers, Sequences, FiniteSets, TLC

\* ------------------------------------------------------------------ bounds
MaxBufLen == 8
MaxCapacity == 8
MaxExchanges == 4

\* --------------------------------------------------------------- constants
\* A u32 is held as the integer congruent to it modulo 2^32 in
\* -2^31 .. 2^31 - 1: a value of 2^31 or more, which here only a wrapped
\* subtraction produces, appears as a negative number.
U16 == 65536
NoByte == -1
\* Reply telegram header, "should be 35" (write_area.rs:52-55).
header_size == 35
\* exchanged_data[0..12]
HeaderSliceLen == 12
\* exchanged_data.get(14)
ItemByteIndex == 14
ItemSuccess == 255

VARIABLES buffer, data_type, pdu_length, pdu_number, start, overflow_checks,
          pc, offset, requests, responses, result

vars == <<buffer, data_type, pdu_length, pdu_number, start, overflow_checks,
          pc, offset, requests, responses, result>>

\* ------------------------------------------------------------ error values
\* enum Error, reduced to uniform records so that results compare.
Running == [tag |-> "Running", kind |-> "", detail |-> "", code |-> NoByte]
Ok == [tag |-> "Ok", kind |-> "", detail |-> "", code |-> NoByte]
Panic == [tag |-> "Panic", kind |-> "", detail |-> "", code |-> NoByte]
Err(kind, detail) == [tag |-> "Err", kind |-> kind, detail |-> detail, code |-> NoByte]

\* from_codes with the last row of the class table one byte off
\* (0x86 instead of 0x87).
S7ProtocolError_from_codes_ShiftedRow(class, code) ==
    [class |-> IF class # NoByte
               THEN CASE class = 0 -> "No error"
                      [] class = 129 -> "Application relationship error"
                      [] class = 130 -> "Object definition error"
                      [] class = 131 -> "No resources available error"
                      [] class = 132 -> "Error on service processing"
                      [] class = 133 -> "Error on supplies"
                      [] class = 134 -> "Access error"
                      [] OTHER -> "Unknown error class"
               ELSE "No error class given",
     error |-> code]

\* S7ProtocolError::from_codes
S7ProtocolError_from_codes(class, code) ==
    [class |-> IF class # NoByte
               THEN CASE class = 0 -> "No error"
                      [] class = 129 -> "Application relationship error"
                      [] class = 130 -> "Object definition error"
                      [] class = 131 -> "No resources available error"
                      [] class = 132 -> "Error on service processing"
                      [] class = 133 -> "Error on supplies"
                      [] class = 135 -> "Access error"
                      [] OTHER -> "Unknown error class"
               ELSE "No error class given",
     error |-> code]

\* Error::S7ProtocolError(S7ProtocolError::from_codes(class, code))
ErrS7Protocol(class, code) ==
    LET e == S7ProtocolError_from_codes(class, code)
    IN [tag |-> "Err", kind |-> "S7ProtocolError", detail |-> e.class, code |-> e.error]

\* format!("{}", u8): the decimal digits of a byte, most significant first.
DigitChar(d) ==
    CASE d = 0 -> "0" [] d = 1 -> "1" [] d = 2 -> "2" [] d = 3 -> "3" [] d = 4 -> "4"
      [] d = 5 -> "5" [] d = 6 -> "6" [] d = 7 -> "7" [] d = 8 -> "8" [] d = 9 -> "9"

RECURSIVE Decimal(_)
Decimal(n) == IF n < 10 THEN <<DigitChar(n)>> ELSE Decimal(n \div 10) \o <<DigitChar(n % 10)>>

\* impl fmt::Display for S7ProtocolError: the message as a sequence of text
\* pieces, the parts joined by " - ".
S7ProtocolError_fmt(e) ==
    LET first == <<"S7 Protocol error: ", e.class>>
    IN IF e.error # NoByte
       THEN first \o <<" - ">> \o <<"error code: ">> \o Decimal(e.error)
       ELSE first

\* From<u8> with the 0x0a row written as 0x10.
S7DataItemResponseError_from_WrongRadix(code) ==
    CASE code = 0 -> "Reserved"
      [] code = 1 -> "HardwareFault"
      [] code = 3 -> "AccessNotAllowed"
      [] code = 5 -> "AddressOutOfRange"
      [] code = 6 -> "DataTypeNotSupported"
      [] code = 7 -> "DataTypeInconsistent"
      [] code = 16 -> "ObjectDoesNotExist"
      [] OTHER -> "Unknown"

\* impl From<u8> for S7DataItemResponseError
S7DataItemResponseError_from(code) ==
    CASE code = 0 -> "Reserved"
      [] code = 1 -> "HardwareFault"
      [] code = 3 -> "AccessNotAllowed"
      [] code = 5 -> "AddressOutOfRange"
      [] code = 6 -> "DataTypeNotSupported"
      [] code = 7 -> "DataTypeInconsistent"
      [] code = 10 -> "ObjectDoesNotExist"
      [] OTHER -> "Unknown"

\* ------------------------------------------------------------- data types
S7DataTypes == {"S7BYTE", "S7WORD", "S7DWORD"}

\* S7DataTypes::get_size
get_size(t) == CASE t = "S7BYTE" -> 1 [] t = "S7WORD" -> 2 [] t = "S7DWORD" -> 4

\* Rust's integer division truncates toward zero.
TruncDiv(a, b) == IF a >= 0 THEN a \div b ELSE -((-a) \div b)

\* let requested_size = buffer.len() as u32 / data_type.get_size();
requested_size == Len(buffer) \div get_size(data_type)

\* The capacity check comparing against 0 instead of 1.
CapacityTooSmall_BelowZero == TruncDiv(pdu_length - header_size, get_size(data_type)) < 0

\* if ((pdu_length as i32 - header_size as i32) / data_type.get_size() as i32) < 1
CapacityTooSmall == TruncDiv(pdu_length - header_size, get_size(data_type)) < 1

\* let max_elements = (pdu_length as usize - header_size) as u32 / data_type.get_size();
max_elements == (pdu_length - header_size) \div get_size(data_type)

\* buffer.get(from..to): None when from > to or to > len.  A wrapped bound
\* (negative here) is beyond every buffer length.
SliceGet(buf, from, to) ==
    IF from >= 0 /\ to >= 0 /\ from <= to /\ to <= Len(buf)
    THEN [some |-> TRUE, data |-> SubSeq(buf, from + 1, to)]
    ELSE [some |-> FALSE, data |-> <<>>]

\* ------------------------------------------------------------------ inputs
Buffers == {[i \in 1..n |-> i] : n \in 0..MaxBufLen}
PduLengths == (header_size - 1)..(header_size + MaxCapacity)
Starts == {0, 100}
PduNumbers == {7}

Init ==
    /\ buffer \in Buffers
    /\ data_type \in S7DataTypes
    /\ pdu_length \in PduLengths
    /\ pdu_number \in PduNumbers
    /\ start \in Starts
    /\ overflow_checks \in BOOLEAN
    /\ pc = "start"
    /\ offset = 0
    /\ requests = <<>>
    /\ responses = <<>>
    /\ result = Running

inputs == <<buffer, data_type, pdu_length, pdu_number, start, overflow_checks>>

\* write_area.rs:53-62
CapacityCheck ==
    /\ pc = "start"
    /\ IF CapacityTooSmall
       THEN /\ pc' = "done"
            /\ result' = Err("ISORequest", "InvalidPDU")
       ELSE /\ pc' = "loop"
            /\ result' = result
    /\ offset' = 0
    /\ UNCHANGED <<inputs, requests, responses>>

\* ------------------------------------------------------- fragment loop
\* while offset == 0 || offset < buffer.len() as u32
LoopGuard == offset = 0 \/ offset < Len(buffer)

\* items_to_write with the first arm passing the remaining length through
\* instead of clamping it to max_elements.
items_to_write_Unclamped ==
    IF (Len(buffer) - offset) > max_elements THEN Len(buffer) - offset ELSE requested_size - offset

\* match buffer.len() as u32 - offset { x if x > max_elements => max_elements,
\*                                      _ => requested_size - offset }
\* The u32 subtraction of the second arm wraps when overflow checks are off.
TakesMaxElements == (Len(buffer) - offset) > max_elements
items_to_write ==
    IF TakesMaxElements THEN max_elements ELSE requested_size - offset

\* The arithmetic of lines 64-78 leaves u32 exactly when requested_size - offset
\* is evaluated with offset > requested_size (the later product
\* items_to_write * data_type.get_size() wraps only after that).
ArithmeticOverflows == ~TakesMaxElements /\ requested_size < offset

\* buffer.get(offset as usize..(items_to_write * data_type.get_size()) as usize)
FragmentSlice ==
    SliceGet(buffer, offset, items_to_write * get_size(data_type))

\* DataItemTransportSize::len() of data_type.into(): the byte width of one
\* addressed element.
transport_size(t) == get_size(t)

\* DataItem::build_write: count is vec.len() as u16 * transport_size in u16.
DataItem_build_write(t, slice) ==
    IF slice.some
    THEN [ok |-> TRUE, error_code |-> 0, var_type |-> t,
          count |-> ((Len(slice.data) % U16) * transport_size(t)) % U16,
          data |-> slice.data]
    ELSE [ok |-> FALSE, error_code |-> 0, var_type |-> t, count |-> 0, data |-> <<>>]

\* The u16 product of DataItem::build_write leaves u16.
DataItemCountOverflows ==
    FragmentSlice.some /\ (Len(FragmentSlice.data) % U16) * transport_size(data_type) >= U16

\* RequestItem::build(area, db_number, start + offset, data_type, items_to_write as u16),
\* the DataItem payload and the reference of S7ProtocolHeader::build_request.
BuiltRequest ==
    [address |-> start + offset,
     count |-> items_to_write % U16,
     data |-> DataItem_build_write(data_type, FragmentSlice).data,
     item |-> DataItem_build_write(data_type, FragmentSlice),
     pdu_ref |-> pdu_number]

\* write_area.rs:63-95: one pass from the loop guard to the exchange.
BuildRequest ==
    /\ pc = "loop"
    /\ LoopGuard
    /\ Len(requests) < MaxExchanges
    /\ IF overflow_checks /\ ArithmeticOverflows
       THEN /\ pc' = "done"
            /\ result' = Panic
            /\ UNCHANGED <<offset, requests>>
       ELSE IF ~DataItem_build_write(data_type, FragmentSlice).ok
       THEN /\ pc' = "done"
            /\ result' = Err("ISORequest", "InvalidDataSize")
            /\ UNCHANGED <<offset, requests>>
       ELSE IF overflow_checks /\ DataItemCountOverflows
       THEN /\ pc' = "done"
            /\ result' = Panic
            /\ UNCHANGED <<offset, requests>>
       ELSE /\ pc' = "exchange"
            /\ requests' = Append(requests, BuiltRequest)
            /\ offset' = offset + requested_size
            /\ result' = result
    /\ UNCHANGED <<inputs, responses>>

\* ------------------------------------------------------------- responses
\* What exchange_buffer hands back: a transport failure, or response bytes
\* described by their length and the fields the header decoder reads.
TransportFailure(e) ==
    [kind |-> e, len |-> 0, malformed |-> FALSE, ack |-> FALSE, pdu_ref |-> 0,
     error_class |-> NoByte, error_code |-> NoByte, item |-> NoByte]

Data(len, malformed, ack, ref, class, code, item) ==
    [kind |-> "Data", len |-> len, malformed |-> malformed, ack |-> ack, pdu_ref |-> ref,
     error_class |-> class, error_code |-> code, item |-> item]

ErrorClasses == {0, 129, 130, 131, 132, 133, 134, 135, 255}
ErrorCodes == {NoByte, 0, 5, 132}
ItemBytes == {0, 1, 2, 3, 4, 5, 6, 7, 8, 9, 10, 11, 254, 255}
TransportErrors == {"IO", "DataExchangeTimedOut"}

ShortResponses == {Data(n, FALSE, FALSE, 0, NoByte, NoByte, NoByte) : n \in {0, HeaderSliceLen - 1}}
MalformedResponses == {Data(HeaderSliceLen, TRUE, FALSE, 0, NoByte, NoByte, NoByte)}
HeaderOnlyResponses ==
    {Data(ItemByteIndex, FALSE, a, r, ec[1], ec[2], NoByte) :
        a \in BOOLEAN, r \in {pdu_number, pdu_number + 1},
        ec \in {<<NoByte, NoByte>>, <<132, 5>>}}
CombinedResponses ==
    {Data(ItemByteIndex + 1, FALSE, a, r, ec[1], ec[2], i) :
        a \in BOOLEAN, r \in {pdu_number, pdu_number + 1},
        ec \in {<<NoByte, NoByte>>, <<132, 5>>}, i \in {ItemSuccess, 5}}
ErrorClassResponses ==
    {Data(ItemByteIndex + 1, FALSE, TRUE, pdu_number, c, e, ItemSuccess) :
        c \in ErrorClasses, e \in ErrorCodes}
ItemResponses ==
    {Data(ItemByteIndex + 1, FALSE, TRUE, pdu_number, NoByte, NoByte, i) : i \in ItemBytes}

Responses ==
    ShortResponses \cup MalformedResponses \cup HeaderOnlyResponses
        \cup CombinedResponses \cup ErrorClassResponses \cup ItemResponses

\* S7ProtocolHeader::try_from(exchanged_data[0..12].to_vec()) yields a header.
Decoded(resp) == resp.kind = "Data" /\ resp.len >= HeaderSliceLen /\ ~resp.malformed

\* S7ProtocolHeader::is_ack
is_ack(resp) == resp.ack

\* S7ProtocolHeader::is_current_pdu_response
is_current_pdu_response(resp, current) == resp.pdu_ref = current

\* S7ProtocolHeader::has_error
has_error(resp) == resp.error_class # NoByte

\* exchanged_data.get(14)
HasItemByte(resp) == resp.len > ItemByteIndex

\* The response checks without is_ack().
CheckResponse_NoAckCheck(resp, current) ==
    IF resp.len < HeaderSliceLen THEN Panic
    ELSE IF resp.malformed THEN Err("ISOResponse", "InvalidPDU")
    ELSE IF ~is_current_pdu_response(resp, current)
         THEN Err("ResponseDoesNotBelongToCurrentPDU", "")
    ELSE IF has_error(resp) THEN ErrS7Protocol(resp.error_class, resp.error_code)
    ELSE IF HasItemByte(resp) /\ resp.item # ItemSuccess
         THEN Err("DataItemError", S7DataItemResponseError_from(resp.item))
    ELSE Running

\* The response checks without is_current_pdu_response().
CheckResponse_NoReferenceCheck(resp, current) ==
    IF resp.len < HeaderSliceLen THEN Panic
    ELSE IF resp.malformed THEN Err("ISOResponse", "InvalidPDU")
    ELSE IF ~is_ack(resp) THEN Err("RequestNotAcknowledged", "")
    ELSE IF has_error(resp) THEN ErrS7Protocol(resp.error_class, resp.error_code)
    ELSE IF HasItemByte(resp) /\ resp.item # ItemSuccess
         THEN Err("DataItemError", S7DataItemResponseError_from(resp.item))
    ELSE Running

\* The response checks with is_current_pdu_response() ahead of is_ack().
CheckResponse_ReferenceFirst(resp, current) ==
    IF resp.len < HeaderSliceLen THEN Panic
    ELSE IF resp.malformed THEN Err("ISOResponse", "InvalidPDU")
    ELSE IF ~is_current_pdu_response(resp, current)
         THEN Err("ResponseDoesNotBelongToCurrentPDU", "")
    ELSE IF ~is_ack(resp) THEN Err("RequestNotAcknowledged", "")
    ELSE IF has_error(resp) THEN ErrS7Protocol(resp.error_class, resp.error_code)
    ELSE IF HasItemByte(resp) /\ resp.item # ItemSuccess
         THEN Err("DataItemError", S7DataItemResponseError_from(resp.item))
    ELSE Running

\* The response checks without the per-item byte check.
CheckResponse_NoItemCheck(resp, current) ==
    IF resp.len < HeaderSliceLen THEN Panic
    ELSE IF resp.malformed THEN Err("ISOResponse", "InvalidPDU")
    ELSE IF ~is_ack(resp) THEN Err("RequestNotAcknowledged", "")
    ELSE IF ~is_current_pdu_response(resp, current)
         THEN Err("ResponseDoesNotBelongToCurrentPDU", "")
    ELSE IF has_error(resp) THEN ErrS7Protocol(resp.error_class, resp.error_code)
    ELSE Running

\* write_area.rs:98-118: Running when every check lets the loop go on.
CheckResponse(resp, current) ==
    IF resp.len < HeaderSliceLen THEN Panic
    ELSE IF resp.malformed THEN Err("ISOResponse", "InvalidPDU")
    ELSE IF ~is_ack(resp) THEN Err("RequestNotAcknowledged", "")
    ELSE IF ~is_current_pdu_response(resp, current)
         THEN Err("ResponseDoesNotBelongToCurrentPDU", "")
    ELSE IF has_error(resp) THEN ErrS7Protocol(resp.error_class, resp.error_code)
    ELSE IF HasItemByte(resp) /\ resp.item # ItemSuccess
         THEN Err("DataItemError", S7DataItemResponseError_from(resp.item))
    ELSE Running

\* A transport failure swallowed: the loop goes on to the next fragment.
ExchangeFails_Swallowed ==
    /\ pc = "exchange"
    /\ \E e \in TransportErrors :
          /\ responses' = Append(responses, TransportFailure(e))
          /\ result' = result
    /\ pc' = "loop"
    /\ UNCHANGED <<inputs, offset, requests>>

\* write_area.rs:97: exchange_buffer(conn, &mut request).await? fails.
ExchangeFails ==
    /\ pc = "exchange"
    /\ \E e \in TransportErrors :
          /\ responses' = Append(responses, TransportFailure(e))
          /\ result' = Err(e, "")
    /\ pc' = "done"
    /\ UNCHANGED <<inputs, offset, requests>>

\* write_area.rs:97-120: the response arrives and is checked.
ExchangeResponds ==
    /\ pc = "exchange"
    /\ \E resp \in Responses :
          LET r == CheckResponse(resp, pdu_number)
          IN /\ responses' = Append(responses, resp)
             /\ IF r = Running
                THEN /\ offset' = offset + requested_size
                     /\ pc' = "loop"
                     /\ result' = result
                ELSE /\ offset' = offset
                     /\ pc' = "done"
                     /\ result' = r
    /\ UNCHANGED <<inputs, requests>>

\* write_area.rs:63,123: the loop guard is false.
ReturnOk ==
    /\ pc = "loop"
    /\ ~LoopGuard
    /\ pc' = "done"
    /\ result' = Ok
    /\ UNCHANGED <<inputs, offset, requests, responses>>

Next ==
    \/ CapacityCheck
    \/ BuildRequest
    \/ ExchangeFails
    \/ ExchangeResponds
    \/ ReturnOk

Spec == Init /\ [][Next]_vars

TypeOK ==
    /\ pc \in {"start", "loop", "exchange", "done"}
    /\ offset \in Nat
    /\ Len(requests) <= MaxExchanges
    /\ Len(responses) <= Len(requests)

\* ------------------------------------------------------ claim vocabulary
Min(a, b) == IF a <= b THEN a ELSE b
Ceil(a, b) == (a + b - 1) \div b

RECURSIVE ConcatData(_)
ConcatData(reqs) ==
    IF reqs = <<>> THEN <<>> ELSE ConcatData(SubSeq(reqs, 1, Len(reqs) - 1)) \o reqs[Len(reqs)].data

\* The response accepts its fragment: decoded, positive acknowledgement,
\* the request's reference, no error class, per-item byte 255.
Accepted(k) ==
    /\ Decoded(responses[k])
    /\ responses[k].ack
    /\ responses[k].pdu_ref = requests[k].pdu_ref
    /\ responses[k].error_class = NoByte
    /\ HasItemByte(responses[k])
    /\ responses[k].item = ItemSuccess

\* Every response received so far accepted its fragment.
AcceptingTransport == \A k \in 1..Len(responses) : Accepted(k)

Returned == pc = "done"
LastResponse == responses[Len(responses)]

\* C1: when write_area returns Ok(()), the payloads of the requests, in
\* order, concatenate to exactly the buffer, and every exchange was accepted.
C1_OkMeansWholeBufferTransferred ==
    (Returned /\ result = Ok) =>
        /\ Len(responses) = Len(requests)
        /\ ConcatData(requests) = buffer
        /\ \A k \in 1..Len(responses) : Accepted(k)

\* C2: under an accepting transport, a buffer of more than max_elements
\* elements is written in exactly ceil(total_elements / max_elements)
\* exchanges before write_area returns.
C2_ExchangeCountIsCeiling ==
    (Returned /\ ~CapacityTooSmall /\ AcceptingTransport /\ requested_size > max_elements) =>
        /\ result = Ok
        /\ Len(responses) = Ceil(requested_size, max_elements)

\* C3: under an accepting transport, the k-th request addresses
\* start + offset_k and declares min(elements remaining, max_elements)
\* elements, offset_k being the sum of the earlier counts; a returned call
\* has sent all of these fragments.
C3_FragmentAddressesAndCounts ==
    (~CapacityTooSmall /\ AcceptingTransport) =>
        /\ \A k \in 1..Len(requests) :
              /\ requests[k].address = start + (k - 1) * max_elements
              /\ requests[k].count = Min(requested_size - (k - 1) * max_elements, max_elements)
        /\ (Returned /\ requested_size > 0) =>
              Len(responses) = Ceil(requested_size, max_elements)

\* C4: under an accepting transport, a buffer of a positive whole number of
\* elements, at most max_elements of them, is written in exactly one
\* exchange declaring all the elements, and write_area returns Ok(()).
C4_SingleFragmentWrite ==
    (/\ ~CapacityTooSmall
     /\ AcceptingTransport
     /\ Len(buffer) > 0
     /\ Len(buffer) % get_size(data_type) = 0
     /\ requested_size <= max_elements) =>
        /\ Len(requests) <= 1
        /\ Returned =>
              /\ result = Ok
              /\ Len(responses) = 1
              /\ requests[1].count = requested_size

\* C5: a PDU length below overhead plus one element makes write_area return
\* Err(ISORequest(InvalidPDU)) with no exchange; any other PDU length never
\* gives that error.
C5_InvalidPduIffNoElementFits ==
    (pc # "start") =>
        /\ (pdu_length < header_size + get_size(data_type)) =>
              /\ Returned
              /\ result = Err("ISORequest", "InvalidPDU")
              /\ requests = <<>>
              /\ responses = <<>>
        /\ (pdu_length >= header_size + get_size(data_type)) =>
              result # Err("ISORequest", "InvalidPDU")

C5_Witness ==
    /\ Returned
    /\ pdu_length < header_size
    /\ result = Err("ISORequest", "InvalidPDU")
    /\ requests = <<>>

\* C6: a response whose header carries a negative acknowledgement ends the
\* call with Err(RequestNotAcknowledged); it is the last exchange.
C6_NegativeAckAborts ==
    \A k \in 1..Len(responses) :
        (Decoded(responses[k]) /\ ~responses[k].ack) =>
            /\ k = Len(responses)
            /\ k = Len(requests)
            /\ Returned
            /\ result = Err("RequestNotAcknowledged", "")

C6_Witness ==
    /\ Len(responses) = 2
    /\ Len(requests) = 2
    /\ Accepted(1)
    /\ Decoded(responses[2])
    /\ ~responses[2].ack
    /\ result = Err("RequestNotAcknowledged", "")

\* C7: a positively acknowledged response whose PDU reference differs from
\* the one in the fragment's request ends the call with
\* Err(ResponseDoesNotBelongToCurrentPDU); with an equal reference that
\* error is not returned.
C7_PduReferenceChecked ==
    \A k \in 1..Len(responses) :
        (Decoded(responses[k]) /\ responses[k].ack) =>
            /\ (responses[k].pdu_ref # requests[k].pdu_ref) =>
                  /\ k = Len(responses)
                  /\ Returned
                  /\ result = Err("ResponseDoesNotBelongToCurrentPDU", "")
            /\ (responses[k].pdu_ref = requests[k].pdu_ref /\ k = Len(responses)) =>
                  result # Err("ResponseDoesNotBelongToCurrentPDU", "")

C7_Witness ==
    /\ Len(responses) >= 1
    /\ Decoded(LastResponse)
    /\ LastResponse.ack
    /\ LastResponse.pdu_ref # requests[Len(responses)].pdu_ref
    /\ result = Err("ResponseDoesNotBelongToCurrentPDU", "")

\* The class table and the decimal texts as the claim C8 words them.
C8_ClassText(class) ==
    CASE class = 0 -> "No error"
      [] class = 129 -> "Application relationship error"
      [] class = 130 -> "Object definition error"
      [] class = 131 -> "No resources available error"
      [] class = 132 -> "Error on service processing"
      [] class = 133 -> "Error on supplies"
      [] class = 135 -> "Access error"
      [] class = NoByte -> "No error class given"
      [] OTHER -> "Unknown error class"

C8_DecimalText(code) ==
    CASE code = 0 -> <<"0">> [] code = 5 -> <<"5">> [] code = 132 -> <<"1", "3", "2">>

\* C8: an acknowledged, current-PDU response header with an error class ends
\* the call with Err(S7ProtocolError) whose class text follows the class
\* table and whose message holds the code in decimal exactly when a code is
\* present; an absent class is classified "No error class given".
C8_ProtocolErrorClassified ==
    /\ \A k \in 1..Len(responses) :
          LET r == responses[k]
          IN (/\ Decoded(r)
              /\ r.ack
              /\ r.pdu_ref = requests[k].pdu_ref
              /\ r.error_class # NoByte) =>
                 /\ k = Len(responses)
                 /\ Returned
                 /\ result.tag = "Err"
                 /\ result.kind = "S7ProtocolError"
                 /\ result.detail = C8_ClassText(r.error_class)
                 /\ result.code = r.error_code
                 /\ LET msg == S7ProtocolError_fmt([class |-> result.detail, error |-> result.code])
                        head == <<"S7 Protocol error: ", C8_ClassText(r.error_class)>>
                    IN IF r.error_code # NoByte
                       THEN msg = head \o <<" - ", "error code: ">> \o C8_DecimalText(r.error_code)
                       ELSE msg = head
    /\ \A c \in ErrorCodes :
          S7ProtocolError_from_codes(NoByte, c).class = C8_ClassText(NoByte)

C8_Witness ==
    /\ Returned
    /\ Len(responses) >= 1
    /\ LastResponse.error_class = 132
    /\ LastResponse.error_code = 5
    /\ result.kind = "S7ProtocolError"
    /\ result.detail = "Error on service processing"
    /\ S7ProtocolError_fmt([class |-> result.detail, error |-> result.code])
          = <<"S7 Protocol error: ", "Error on service processing", " - ", "error code: ", "5">>

\* The per-item table as the claim C9 words it.
C9_Kind(b) ==
    CASE b = 0 -> "Reserved"
      [] b = 1 -> "HardwareFault"
      [] b = 3 -> "AccessNotAllowed"
      [] b = 5 -> "AddressOutOfRange"
      [] b = 6 -> "DataTypeNotSupported"
      [] b = 7 -> "DataTypeInconsistent"
      [] b = 10 -> "ObjectDoesNotExist"
      [] OTHER -> "Unknown"

C9_Step ==
    (pc = "exchange" /\ Len(responses') = Len(responses) + 1) =>
        LET r == responses'[Len(responses')]
        IN (/\ Decoded(r)
            /\ r.ack
            /\ r.pdu_ref = requests[Len(requests)].pdu_ref
            /\ r.error_class = NoByte
            /\ HasItemByte(r)) =>
               IF r.item = ItemSuccess
               THEN pc' = "loop" /\ result' = Running
               ELSE pc' = "done" /\ result' = Err("DataItemError", C9_Kind(r.item))

\* C9: for a response that passed the header checks, a per-item byte of 255
\* gives no error and the loop goes on; any other byte ends the call with
\* Err(DataItemError(k)), k decoded from the byte by the per-item table.
C9_ItemByteDecoded == [][C9_Step]_vars

C9_Witness ==
    /\ Returned
    /\ Len(responses) >= 1
    /\ Decoded(LastResponse)
    /\ LastResponse.ack
    /\ LastResponse.error_class = NoByte
    /\ LastResponse.item = 5
    /\ result = Err("DataItemError", "AddressOutOfRange")

\* C10: under an accepting transport every loop iteration advances offset by
\* the strictly positive number of elements its request declared, the loop
\* and the loop exits exactly when offset has reached the element length of
\* the buffer.
C10_LoopAdvancesAndTerminates ==
    (~CapacityTooSmall /\ AcceptingTransport) =>
        /\ (pc = "loop" /\ Len(requests) > 0) =>
              LET r == requests[Len(requests)]
              IN /\ r.count > 0
                 /\ offset = (r.address - start) + r.count
                 /\ (~LoopGuard) <=> (offset = requested_size)
        /\ (Returned /\ result = Ok) => offset = requested_size
\* C11: every request exchanged declares at most max_elements elements, so
\* declared elements x element byte size <= pdu_length - header_size.
C11_FragmentWithinCapacity ==
    \A k \in 1..Len(requests) :
        /\ requests[k].count <= max_elements
        /\ requests[k].count * get_size(data_type) <= pdu_length - header_size

C11_Witness ==
    /\ Len(requests) >= 1
    /\ Len(responses) = Len(requests)
    /\ Len(buffer) > max_elements
    /\ requests[Len(requests)].count = max_elements
\* The error each failing response check returns, as C12 and C13 word them.
C12_CheckError(r, ref) ==
    IF r.malformed THEN Err("ISOResponse", "InvalidPDU")
    ELSE IF ~r.ack THEN Err("RequestNotAcknowledged", "")
    ELSE IF r.pdu_ref # ref THEN Err("ResponseDoesNotBelongToCurrentPDU", "")
    ELSE IF r.error_class # NoByte
         THEN [tag |-> "Err", kind |-> "S7ProtocolError",
               detail |-> C8_ClassText(r.error_class), code |-> r.error_code]
    ELSE IF r.len > ItemByteIndex /\ r.item # ItemSuccess
         THEN Err("DataItemError", C9_Kind(r.item))
    ELSE Running

C12_Step ==
    \* a returned call does nothing more
    /\ pc # "done"
    \* a request is built only when every earlier one has had its one exchange
    /\ Len(requests') > Len(requests) =>
          (Len(requests') = Len(requests) + 1 /\ Len(responses) = Len(requests))
    \* one exchange per step, for the request in flight
    /\ Len(responses') > Len(responses) =>
          /\ Len(responses') = Len(responses) + 1
          /\ Len(responses') = Len(requests)
          /\ requests' = requests
          /\ LET r == responses'[Len(responses')]
             IN /\ r.kind # "Data" =>
                      (pc' = "done" /\ result' = Err(r.kind, ""))
                /\ (r.kind = "Data" /\ r.len >= HeaderSliceLen
                        /\ C12_CheckError(r, requests[Len(requests)].pdu_ref) # Running) =>
                      /\ pc' = "done"
                      /\ result' = C12_CheckError(r, requests[Len(requests)].pdu_ref)

\* C12: no retry and fail fast: every request built has at most one
\* exchange, and a transport failure or a failed response check is returned
\* as that same error, its exchange being the last of the call.
C12_NoRetryFailFast == [][C12_Step]_vars

C12_Witness ==
    /\ Returned
    /\ Len(responses) = 2
    /\ Len(requests) = 2
    /\ LastResponse.kind = "DataExchangeTimedOut"
    /\ result = Err("DataExchangeTimedOut", "")
\* C13: the checks run in the order acknowledgement, PDU reference, header
\* error class, per-item byte, and the error returned is that of the first
\* one that fails, whatever the later ones would have found.
C13_FirstFailingCheckWins ==
    \A k \in 1..Len(responses) :
        LET r == responses[k]
            mismatch == r.pdu_ref # requests[k].pdu_ref
            class == r.error_class # NoByte
            baditem == HasItemByte(r) /\ r.item # ItemSuccess
        IN Decoded(r) =>
              /\ (~r.ack /\ (mismatch \/ class \/ baditem)) =>
                    (Returned /\ result = Err("RequestNotAcknowledged", ""))
              /\ (r.ack /\ mismatch /\ (class \/ baditem)) =>
                    (Returned /\ result = Err("ResponseDoesNotBelongToCurrentPDU", ""))
              /\ (r.ack /\ ~mismatch /\ class /\ baditem) =>
                    (Returned /\ result.kind = "S7ProtocolError")
              /\ (r.ack /\ ~mismatch /\ ~class /\ baditem) =>
                    (Returned /\ result.kind = "DataItemError")

C13_Witness ==
    /\ Returned
    /\ Len(responses) >= 1
    /\ Decoded(LastResponse)
    /\ ~LastResponse.ack
    /\ LastResponse.pdu_ref # requests[Len(responses)].pdu_ref
    /\ LastResponse.error_class # NoByte
    /\ LastResponse.item = 5
    /\ result = Err("RequestNotAcknowledged", "")

\* A response that let the loop go on: decoded, acknowledged, the request's
\* reference, no error class, and no per-item byte other than 255.
C14_Passed(k) ==
    /\ Decoded(responses[k])
    /\ responses[k].ack
    /\ responses[k].pdu_ref = requests[k].pdu_ref
    /\ responses[k].error_class = NoByte
    /\ HasItemByte(responses[k]) => responses[k].item = ItemSuccess

\* C14: fragments are strictly sequential: at most one request is in flight,
\* and the request of fragment k+1 exists only once the response to fragment
\* k has been received and has passed every check.
C14_StrictlySequential ==
    /\ Len(requests) - Len(responses) \in {0, 1}
    /\ (Len(requests) - Len(responses) = 1) <=> (pc = "exchange")
    /\ \A k \in 1..(Len(requests) - 1) : C14_Passed(k)

C14_Witness ==
    /\ pc = "exchange"
    /\ Len(requests) = 2
    /\ Len(responses) = 1
    /\ C14_Passed(1)
\* C15: a response shorter than the fixed header makes write_area return
\* Err(ISOResponse(ShortPacket)); it neither crashes nor accepts the fragment.
C15_ShortResponseIsAnError ==
    \A k \in 1..Len(responses) :
        (responses[k].kind = "Data" /\ responses[k].len < HeaderSliceLen) =>
            /\ k = Len(responses)
            /\ Returned
            /\ result = Err("ISOResponse", "ShortPacket")

C16_Step ==
    (pc = "loop" /\ LoopGuard /\ pc' # pc /\ result' # Panic) =>
        IF ~FragmentSlice.some
        THEN result' = Err("ISORequest", "InvalidDataSize") /\ requests' = requests
        ELSE /\ result' # Err("ISORequest", "InvalidDataSize")
             /\ Len(requests') = Len(requests) + 1
             /\ LET it == requests'[Len(requests')].item
                IN /\ it.error_code = 0
                   /\ it.data = FragmentSlice.data
                   /\ it.count = (Len(FragmentSlice.data) \div get_size(data_type))
                                    * transport_size(data_type)

\* C16: build_write fails with Err(ISORequest(InvalidDataSize)) exactly when
\* no slice is supplied; with a slice the DataItem has error code 0, the
\* slice as data, and count = elements held in the slice x transport_size.
C16_BuildWriteCount == [][C16_Step]_vars

\* C17: the payload of every request is exactly the buffer bytes of the
\* elements its RequestItem addresses, count x element size of them, and
\* write_area never fails with InvalidDataSize.
C17_PayloadMatchesAddressedElements ==
    /\ result # Err("ISORequest", "InvalidDataSize")
    /\ \A k \in 1..Len(requests) :
          LET first == (requests[k].address - start) * get_size(data_type)
              bytes == requests[k].count * get_size(data_type)
          IN /\ Len(requests[k].data) = bytes
             /\ first + bytes <= Len(buffer)
             /\ requests[k].data = SubSeq(buffer, first + 1, first + bytes)

\* C18: whenever items_to_write is evaluated, offset <= requested_size and
\* offset <= buffer length, so the u32 subtractions never wrap.
C18_NoUnderflow ==
    (pc = "loop" /\ LoopGuard) =>
        /\ offset <= requested_size
        /\ offset <= Len(buffer)

\* C19: a fragment is treated as accepted only if its response holds the
\* per-item byte (index 14) and the byte is 255.
C19_AcceptedOnlyWithItemByte ==
    \A k \in 1..Len(responses) :
        (k < Len(responses) \/ pc = "loop" \/ result = Ok) =>
            /\ HasItemByte(responses[k])
            /\ responses[k].item = ItemSuccess
====
